---- MODULE Spec2Model ----
(***************************************************************************)
(* A model of scripts/excalidraw_generator.py: the element factories, the  *)
(* Element wrapper, Diagram and its two layout builders, Flowchart and     *)
(* ArchitectureDiagram.                                                    *)
(*                                                                         *)
(* Encoding of Python values                                               *)
(*   numbers   every coordinate and extent is a Python float (or an int  *)
(*             that float arithmetic treats alike): an IEEE-754 double,    *)
(*             kept exactly as a pair [c, d] of integers that stands for   *)
(*             c / Scale + d / (5 * 2^66).  c is the nearest count of      *)
(*             1/Scale and d the deviation of the double from it, so       *)
(*             U(100) is the Python 100 and [c |-> 3072, d |-> -8192] is   *)
(*             the double 0.6.  +, - and the products by 0.3, 0.6 and 1.35 *)
(*             round to the nearest double, ties to even, as the hardware  *)
(*             does; /2 is exact.  Magnitudes from 2^-13 up to 2^11 are    *)
(*             covered.                                                    *)
(*   str       text content and labels are sequences of one-character      *)
(*             strings, so that len() and split("\n") are computed; names  *)
(*             looked up in the tables (colours, fonts, sides, keys) are   *)
(*             TLA+ strings.                                               *)
(*   None      Optional values are sequences of length at most one: None   *)
(*             is <<>> and a present value v is <<v>>.                     *)
(*   dict      a record; dict.update is Update.                            *)
(*   ids       uuid4 draws are taken to be pairwise distinct: the k-th     *)
(*             draw of the process is the identifier k.  random.randint    *)
(*             draws are named the same way by their position.             *)
(***************************************************************************)
EXTENDS Integers, Sequences, FiniteSets, TLC

\* 1/Scale is the unit of the count c of a number: 1/5 of 2^-10, so that the
\* decimal literals 0.3, 0.6, 1.35 and 1.25 are whole counts up to a deviation.
Scale == 5 * 2^10

\* the Python int n
U(n) == [c |-> n * Scale, d |-> 0]

\* the binary exponent of a magnitude of a counts: 2^e <= a / Scale < 2^(e + 1)
Exponent(a) ==
    IF a < Scale
    THEN 0 - (CHOOSE n \in 1..13 : Scale <= a * 2^n /\ a * 2^n < 2 * Scale)
    ELSE IF a < 16 * Scale
         THEN IF a < 4 * Scale
              THEN (IF a < 2 * Scale THEN 0 ELSE 1)
              ELSE (IF a < 8 * Scale THEN 2 ELSE 3)
         ELSE IF a < 256 * Scale
              THEN IF a < 64 * Scale
                   THEN (IF a < 32 * Scale THEN 4 ELSE 5)
                   ELSE (IF a < 128 * Scale THEN 6 ELSE 7)
              ELSE IF a < 512 * Scale
                   THEN 8
                   ELSE CHOOSE e \in 9..10 : Scale * 2^e <= a /\ a < Scale * 2^(e + 1)

\* a counts are the power of two 2^e
IsPow2(a, e) == IF e >= 0 THEN a = Scale * 2^e ELSE a * 2^(0 - e) = Scale

\* 2^n modulo 5, n = 0, 1, 2, 3, and so on round the cycle
Pow2Cycle == <<1, 2, 4, 3>>

Pow2Mod5(n) == Pow2Cycle[(n % 4) + 1]

\* the binary exponent of the real a / Scale + ds / (5 * 2^66): e0 is the
\* exponent of a, and a deviation below a power of two is one binade down
ExponentBelow(a, ds, e0) == IF ds < 0 /\ IsPow2(a, e0) THEN e0 - 1 ELSE e0

ExponentOf(a, ds) == ExponentBelow(a, ds, Exponent(a))

\* With e the exponent of a real, the doubles around it are the multiples of
\* 2^(e - 52), which is ulp = 5 * 2^(e + 14) units of d.  Residue is the
\* real modulo two such steps: it tells the parity of the double below the
\* real and how far above it the real lies.
Residue(a, ds, e) ==
    (2^(e + 15) * (((a % 5) * Pow2Mod5(41 - e)) % 5) + ds) % (5 * 2^(e + 15))

\* the deviation of the nearest double; ties go to the even double
Nearest(ds, ulp, odd, rem) ==
    IF 2 * rem > ulp \/ (2 * rem = ulp /\ odd)
    THEN ds + (ulp - rem)
    ELSE ds - rem

Between(ds, ulp, r2) ==
    Nearest(ds, ulp, r2 >= ulp, IF r2 >= ulp THEN r2 - ulp ELSE r2)

\* the deviation of the double nearest to a / Scale + ds / (5 * 2^66) > 0
RoundAt(a, ds, e) == Between(ds, 5 * 2^(e + 14), Residue(a, ds, e))

\* The double nearest to the real c / Scale + d / (5 * 2^66), ties to even:
\* the result of a float operation whose exact result is that real.  A whole
\* number of 1024ths (c a multiple of 5, no deviation) is a double already,
\* and rounding is symmetric about zero.
Round(c, d) ==
    IF c = 0 \/ (d = 0 /\ c % 5 = 0)
    THEN [c |-> c, d |-> d]
    ELSE IF c > 0
         THEN [c |-> c, d |-> RoundAt(c, d, ExponentOf(c, d))]
         ELSE [c |-> c, d |-> 0 - RoundAt(0 - c, 0 - d, ExponentOf(0 - c, 0 - d))]

\* v + w
FAdd(v, w) == Round(v.c + w.c, v.d + w.d)

\* v - w
FSub(v, w) == Round(v.c - w.c, v.d - w.d)

\* -v
FNeg(v) == [c |-> 0 - v.c, d |-> 0 - v.d]

\* v < w
FLess(v, w) == v.c < w.c \/ (v.c = w.c /\ v.d < w.d)

\* mutant: the extent keeps the sign of the delta
Abs_signed(v) == v

\* abs()
Abs(v) == IF FLess(v, U(0)) THEN FNeg(v) ELSE v

\* v / 2, exact for every double in the range covered; the halves of the
\* counts and of the deviations must be whole
Half(v) ==
    [c |-> CHOOSE h \in {v.c \div 2} : 2 * h = v.c,
     d |-> CHOOSE h \in {v.d \div 2} : 2 * h = v.d]

\* n * 0.3 for an int n: 0.3 is the double 1536 / Scale - 4096 / (5 * 2^66)
Times03(n) == Round(n * 1536, n * (0 - 4096))

\* n * 0.6 for an int n: 0.6 is the double 3072 / Scale - 8192 / (5 * 2^66)
Times06(n) == Round(n * 3072, n * (0 - 8192))

\* n * 1.35 for an int n: 1.35 is the double 6912 / Scale + 32768 / (5 * 2^66)
Times135(n) == Round(n * 6912, n * 32768)

None == <<>>

Some(v) == <<v>>

\* dict.get(key, default)
Get(d, key, default) == IF key \in DOMAIN d THEN d[key] ELSE default

\* dict.update(u): the entries of u replace or extend those of d
Update(d, u) == u @@ d

\* mutant: "if label is not None"
Truthy_not_none(optstr) == optstr # None

\* Python truthiness of an Optional[str]: None and "" are both false
Truthy(optstr) == optstr # None /\ Len(optstr[1]) > 0

----------------------------------------------------------------------------
\* Constants (lines 31-110)

FONT_FAMILY == [hand |-> 1, normal |-> 2, code |-> 3, excalifont |-> 5]

TEXT_ALIGN == [left |-> "left", center |-> "center", right |-> "right"]

ROUNDNESS == [sharp |-> None, round |-> Some([type |-> 3])]

ARROWHEADS ==
    [arrow |-> Some("arrow"), triangle |-> Some("triangle"), bar |-> Some("bar"),
     dot |-> Some("circle"), circle |-> Some("circle"),
     diamond |-> Some("diamond"), none |-> None]

COLORS ==
    [black |-> "#1e1e1e", white |-> "#ffffff", transparent |-> "transparent",
     red |-> "#e03131", pink |-> "#c2255c", grape |-> "#9c36b5",
     violet |-> "#6741d9", blue |-> "#1971c2", cyan |-> "#0c8599",
     teal |-> "#099268", green |-> "#2f9e44", yellow |-> "#f08c00",
     orange |-> "#e8590c", gray |-> "#868e96",
     red_bg |-> "#ffe3e3", pink_bg |-> "#ffdeeb", grape_bg |-> "#f3d9fa",
     violet_bg |-> "#e5dbff", blue_bg |-> "#d0ebff", cyan_bg |-> "#c5f6fa",
     teal_bg |-> "#c3fae8", green_bg |-> "#d3f9d8", yellow_bg |-> "#fff3bf",
     orange_bg |-> "#ffe8cc", gray_bg |-> "#e9ecef"]

BG_FOR_STROKE ==
    [red |-> "red_bg", pink |-> "pink_bg", grape |-> "grape_bg",
     violet |-> "violet_bg", blue |-> "blue_bg", cyan |-> "cyan_bg",
     teal |-> "teal_bg", green |-> "green_bg", yellow |-> "yellow_bg",
     orange |-> "orange_bg", gray |-> "gray_bg", black |-> "transparent"]

----------------------------------------------------------------------------
\* Element factories.  ids and seeds are the numbers of uuid4 and randint
\* draws made before the call; each factory makes one uuid4 draw and two
\* randint draws, in the order of the dict literal of _base_element.

\* mutant: the slice keeps too little of the uuid, two draws share an id
_gen_id_short(ids) == (ids \div 2) + 1

_gen_id(ids) == ids + 1

_gen_seed(seeds) == seeds + 1

\* mutant: the dict is built without its link entry
_base_element_no_link(ids, seeds, elem_type, x, y, width, height, stroke_color, bg_color, roundness) ==
    [id |-> _gen_id(ids),
     type |-> elem_type,
     x |-> x,
     y |-> y,
     width |-> width,
     height |-> height,
     angle |-> 0,
     strokeColor |-> stroke_color,
     backgroundColor |-> bg_color,
     fillStyle |-> "solid",
     strokeWidth |-> 2,
     strokeStyle |-> "solid",
     roughness |-> 1,
     opacity |-> 100,
     seed |-> _gen_seed(seeds),
     version |-> 1,
     versionNonce |-> _gen_seed(seeds + 1),
     index |-> None,
     isDeleted |-> FALSE,
     groupIds |-> <<>>,
     frameId |-> None,
     boundElements |-> None,
     updated |-> 1,
     locked |-> FALSE,
     roundness |-> roundness]

_base_element(ids, seeds, elem_type, x, y, width, height, stroke_color, bg_color, roundness) ==
    [id |-> _gen_id(ids),
     type |-> elem_type,
     x |-> x,
     y |-> y,
     width |-> width,
     height |-> height,
     angle |-> 0,
     strokeColor |-> stroke_color,
     backgroundColor |-> bg_color,
     fillStyle |-> "solid",
     strokeWidth |-> 2,
     strokeStyle |-> "solid",
     roughness |-> 1,
     opacity |-> 100,
     seed |-> _gen_seed(seeds),
     version |-> 1,
     versionNonce |-> _gen_seed(seeds + 1),
     index |-> None,
     isDeleted |-> FALSE,
     groupIds |-> <<>>,
     frameId |-> None,
     boundElements |-> None,
     updated |-> 1,
     link |-> None,
     locked |-> FALSE,
     roundness |-> roundness]

\* stroke = COLORS.get(color, color)
StrokeOf(color) == Get(COLORS, color, color)

\* mutant: the fill toggle is ignored
BgOf_always_filled(color, fill) ==
    Get(COLORS, Get(BG_FOR_STROKE, color, "transparent"), "transparent")

\* bg = COLORS.get(BG_FOR_STROKE.get(color, "transparent"), "transparent")
\*      if fill else "transparent"
BgOf(color, fill) ==
    IF fill
    THEN Get(COLORS, Get(BG_FOR_STROKE, color, "transparent"), "transparent")
    ELSE "transparent"

rectangle(ids, seeds, x, y, width, height, color, fill, rounded) ==
    _base_element(ids, seeds, "rectangle", x, y, width, height,
                  StrokeOf(color), BgOf(color, fill),
                  IF rounded THEN ROUNDNESS["round"] ELSE ROUNDNESS["sharp"])

ellipse(ids, seeds, x, y, width, height, color, fill) ==
    _base_element(ids, seeds, "ellipse", x, y, width, height,
                  StrokeOf(color), BgOf(color, fill), None)

diamond(ids, seeds, x, y, width, height, color, fill) ==
    _base_element(ids, seeds, "diamond", x, y, width, height,
                  StrokeOf(color), BgOf(color, fill), None)

\* content.split("\n"): the lines of a character sequence, at least one
RECURSIVE SplitLines(_)
SplitLines(content) ==
    IF \E i \in 1..Len(content) : content[i] = "\n"
    THEN LET i == CHOOSE k \in 1..Len(content) :
                      /\ content[k] = "\n"
                      /\ \A j \in 1..(k - 1) : content[j] # "\n"
         IN  <<SubSeq(content, 1, i - 1)>>
               \o SplitLines(SubSeq(content, i + 1, Len(content)))
    ELSE <<content>>

\* max(len(line) for line in lines)
MaxLineLen(lines) ==
    CHOOSE m \in {Len(lines[i]) : i \in 1..Len(lines)} :
        \A i \in 1..Len(lines) : Len(lines[i]) <= m

\* text counting no line in a content of no character
text_empty_flat(ids, seeds, x, y, content, font_size, font_family, color, align) ==
    LET lines == SplitLines(content)
        width == Times06(MaxLineLen(lines) * font_size)
        height == IF content = <<>>
                  THEN U(0)
                  ELSE Times135(Len(lines) * font_size)
    IN  Update(_base_element(ids, seeds, "text", x, y, width, height,
                             StrokeOf(color), "transparent", None),
               [fontSize |-> font_size,
                fontFamily |-> Get(FONT_FAMILY, font_family, 1),
                text |-> content,
                textAlign |-> Get(TEXT_ALIGN, align, "center"),
                verticalAlign |-> "top",
                containerId |-> None,
                originalText |-> content,
                autoResize |-> TRUE,
                lineHeight |-> Half(Half(U(5)))])

text(ids, seeds, x, y, content, font_size, font_family, color, align) ==
    LET lines == SplitLines(content)
        width == Times06(MaxLineLen(lines) * font_size)
        height == Times135(Len(lines) * font_size)
    IN  Update(_base_element(ids, seeds, "text", x, y, width, height,
                             StrokeOf(color), "transparent", None),
               [fontSize |-> font_size,
                fontFamily |-> Get(FONT_FAMILY, font_family, 1),
                text |-> content,
                textAlign |-> Get(TEXT_ALIGN, align, "center"),
                verticalAlign |-> "top",
                containerId |-> None,
                originalText |-> content,
                autoResize |-> TRUE,
                lineHeight |-> Half(Half(U(5)))])

\* ARROWHEADS.get(start_head): start_head is an Optional name, None is no key
StartHead(start_head) ==
    IF start_head = None THEN None ELSE Get(ARROWHEADS, start_head[1], None)

\* the list returned by arrow: the arrow, then its label when label is truthy
arrow(ids, seeds, start_x, start_y, end_x, end_y, color, start_head, end_head, label) ==
    LET dx == FSub(end_x, start_x)
        dy == FSub(end_y, start_y)
        elem == Update(_base_element(ids, seeds, "arrow", start_x, start_y,
                                     Abs(dx), Abs(dy),
                                     StrokeOf(color), "transparent", None),
                       [points |-> <<(<<U(0), U(0)>>), (<<dx, dy>>)>>,
                        startBinding |-> None,
                        endBinding |-> None,
                        startArrowhead |-> StartHead(start_head),
                        endArrowhead |-> Get(ARROWHEADS, end_head, Some("arrow")),
                        elbowed |-> FALSE])
        mid_x == FAdd(start_x, Half(dx))
        mid_y == FSub(FAdd(start_y, Half(dy)), U(20))
    IN  IF Truthy(label)
        THEN <<elem, text(ids + 1, seeds + 2, mid_x, mid_y, label[1],
                          16, "hand", color, "center")>>
        ELSE <<elem>>

line(ids, seeds, start_x, start_y, end_x, end_y, color) ==
    LET dx == FSub(end_x, start_x)
        dy == FSub(end_y, start_y)
    IN  Update(_base_element(ids, seeds, "line", start_x, start_y,
                             Abs(dx), Abs(dy),
                             StrokeOf(color), "transparent", None),
               [points |-> <<(<<U(0), U(0)>>), (<<dx, dy>>)>>,
                startBinding |-> None,
                endBinding |-> None,
                startArrowhead |-> None,
                endArrowhead |-> None])

----------------------------------------------------------------------------
\* Element: the wrapper.  data is the dict the wrapper was built on; the
\* wrapper keeps its id (__post_init__) and the geometry it was given.

Element(data, x, y, width, height) ==
    [id |-> data.id, x |-> x, y |-> y, width |-> width, height |-> height]

center_x(e) == FAdd(e.x, Half(e.width))

center_y(e) == FAdd(e.y, Half(e.height))

right(e) == FAdd(e.x, e.width)

bottom(e) == FAdd(e.y, e.height)

top(e) == e.y

left(e) == e.x

----------------------------------------------------------------------------
\* The program state: one builder object and what its caller holds.

VARIABLES
    kind,         \* the class constructed: "Diagram", "Flowchart", "ArchitectureDiagram"
    background,   \* Diagram.background
    elements,     \* Diagram.elements, each entry as it reads
    objects,      \* Diagram.elements, each entry as the object it is
    direction,    \* Flowchart.direction
    spacing,      \* Flowchart.spacing
    _nodes,       \* Flowchart._nodes: key -> wrapper
    _next_x,      \* Flowchart._next_x
    _next_y,      \* Flowchart._next_y
    _components,  \* ArchitectureDiagram._components: key -> wrapper
    handles,      \* the wrappers returned to the caller so far, in order
    ids,          \* uuid4 draws made so far by the process
    seeds,        \* random.randint draws made so far by the process
    calls         \* the calls made so far: name, arguments, result

vars == <<kind, background, elements, objects, direction, spacing, _nodes, _next_x,
          _next_y, _components, handles, ids, seeds, calls>>

\* mutant: new elements go to the front of the document
extend_front(list, items) == items \o list

\* list.extend / list.append on self.elements
extend(list, items) == list \o items

\* The caller, before constructing the builder, made one box in another
\* Diagram: Foreign is the wrapper of that box, whose two elements took the
\* first two uuid4 draws and the first four randint draws.
Foreign == Element([id |-> _gen_id(0)], U(0), U(200), U(150), U(60))

EmptyMap == [k \in {} |-> None]

\* dict.get(key) on a registry: None when the key is absent
Lookup(registry, key) ==
    IF key \in DOMAIN registry THEN Some(registry[key]) ELSE None

\* mutant: a key that is registered keeps the wrapper it has
Store_keeps_first(registry, key, wrapper) ==
    [k \in DOMAIN registry \cup {key} |->
        IF k \in DOMAIN registry THEN registry[k] ELSE wrapper]

\* registry[key] = wrapper
Store(registry, key, wrapper) ==
    [k \in DOMAIN registry \cup {key} |->
        IF k = key THEN wrapper ELSE registry[k]]

\* One more entry of the call log.
Logged(op, args, ret, raised) ==
    Append(calls, [op |-> op, args |-> args, ret |-> ret, raised |-> raised,
                   pre |-> Len(elements)])

----------------------------------------------------------------------------
\* Diagram

\* mutant: the text keeps the position and the size estimate text() gave it
bind_keeps_estimate(made, label_elem, x, y, width, height) ==
    <<[made EXCEPT
          !.boundElements = Some(<<[id |-> label_elem.id, type |-> "text"]>>)],
      [label_elem EXCEPT
          !.containerId = Some(made.id),
          !.textAlign = "center",
          !.verticalAlign = "middle"]>>

\* the container binding of box (lines 437-446): the shape refers to the
\* text, the text to the shape, and the text takes the shape's place
bind(made, label_elem, x, y, width, height) ==
    LET shape_elem == [made EXCEPT
                          !.boundElements =
                              Some(<<[id |-> label_elem.id, type |-> "text"]>>)]
        text_elem == [label_elem EXCEPT
                          !.containerId = Some(shape_elem.id),
                          !.textAlign = "center",
                          !.verticalAlign = "middle",
                          !.x = x,
                          !.y = y,
                          !.width = width,
                          !.height = height]
    IN  <<shape_elem, text_elem>>

\* the shape, its bound text and the wrapper returned by Diagram.box
box(i, s, x, y, label, width, height, color, shape, font_size) ==
    LET made == CASE shape = "rectangle" ->
                        rectangle(i, s, x, y, width, height, color, TRUE, TRUE)
                  [] shape = "ellipse" ->
                        ellipse(i, s, x, y, width, height, color, TRUE)
                  [] shape = "diamond" ->
                        diamond(i, s, x, y, width, height, color, TRUE)
        text_x == FSub(FAdd(x, Half(width)), Times03(Len(label) * font_size))
        text_y == FSub(FAdd(y, Half(height)), Half(U(font_size)))
        label_elem == text(i + 1, s + 2, text_x, text_y, label, font_size,
                           "hand", color, "center")
        bound == bind(made, label_elem, x, y, width, height)
    IN  [elems |-> bound,
         ret |-> Element(bound[1], x, y, width, height)]

\* the element and the wrapper returned by Diagram.text_box
text_box(i, s, x, y, content, font_size, color) ==
    LET elem == text(i, s, x, y, content, font_size, "hand", color, "center")
    IN  [elems |-> <<elem>>,
         ret |-> Element(elem, x, y, elem.width, elem.height)]

\* mutant: a tie |dx| = |dy| goes to the horizontal branch
Sides_tie_horizontal(source, target, from_side, to_side) ==
    IF from_side = "auto" /\ to_side = "auto"
    THEN LET dx == FSub(center_x(target), center_x(source))
             dy == FSub(center_y(target), center_y(source))
         IN  IF ~FLess(Abs(dx), Abs(dy))
             THEN <<IF FLess(U(0), dx) THEN "right" ELSE "left",
                    IF FLess(U(0), dx) THEN "left" ELSE "right">>
             ELSE <<IF FLess(U(0), dy) THEN "bottom" ELSE "top",
                    IF FLess(U(0), dy) THEN "top" ELSE "bottom">>
    ELSE <<from_side, to_side>>

\* mutant: detection also fills in a single side left "auto"
Sides_fill_auto(source, target, from_side, to_side) ==
    LET dx == FSub(center_x(target), center_x(source))
        dy == FSub(center_y(target), center_y(source))
        found == IF FLess(Abs(dy), Abs(dx))
                 THEN <<IF FLess(U(0), dx) THEN "right" ELSE "left",
                        IF FLess(U(0), dx) THEN "left" ELSE "right">>
                 ELSE <<IF FLess(U(0), dy) THEN "bottom" ELSE "top",
                        IF FLess(U(0), dy) THEN "top" ELSE "bottom">>
    IN  <<IF from_side = "auto" THEN found[1] ELSE from_side,
          IF to_side = "auto" THEN found[2] ELSE to_side>>

\* the sides arrow_between connects, after auto-detection (lines 475-487)
Sides(source, target, from_side, to_side) ==
    IF from_side = "auto" /\ to_side = "auto"
    THEN LET dx == FSub(center_x(target), center_x(source))
             dy == FSub(center_y(target), center_y(source))
         IN  IF FLess(Abs(dy), Abs(dx))
             THEN <<IF FLess(U(0), dx) THEN "right" ELSE "left",
                    IF FLess(U(0), dx) THEN "left" ELSE "right">>
             ELSE <<IF FLess(U(0), dy) THEN "bottom" ELSE "top",
                    IF FLess(U(0), dy) THEN "top" ELSE "bottom">>
    ELSE <<from_side, to_side>>

\* the start point of the arrow on the source (lines 490-497)
StartPoint(source, from_side) ==
    CASE from_side = "right" -> <<right(source), center_y(source)>>
      [] from_side = "left" -> <<left(source), center_y(source)>>
      [] from_side = "bottom" -> <<center_x(source), bottom(source)>>
      [] OTHER -> <<center_x(source), top(source)>>

\* the end point of the arrow on the target (lines 500-507)
EndPoint(target, to_side) ==
    CASE to_side = "left" -> <<left(target), center_y(target)>>
      [] to_side = "right" -> <<right(target), center_y(target)>>
      [] to_side = "top" -> <<center_x(target), top(target)>>
      [] OTHER -> <<center_x(target), bottom(target)>>

\* the elements Diagram.arrow_between appends
arrow_between(i, s, source, target, label, color, from_side, to_side) ==
    LET sides == Sides(source, target, from_side, to_side)
        start == StartPoint(source, sides[1])
        end == EndPoint(target, sides[2])
    IN  arrow(i, s, start[1], start[2], end[1], end[2], color, None, "arrow", label)

\* the element Diagram.line_between appends
line_between(i, s, source, target, color) ==
    line(i, s, center_x(source), center_y(source),
         center_x(target), center_y(target), color)

\* Diagram._find_element_index: the 0-based index of the first element with
\* this id, -1 when there is none
_find_element_index(elems, elem_id) ==
    IF \E k \in 1..Len(elems) : elems[k].id = elem_id
    THEN (CHOOSE k \in 1..Len(elems) :
              /\ elems[k].id = elem_id
              /\ \A j \in 1..(k - 1) : elems[j].id # elem_id) - 1
    ELSE -1

\* Python list indexing: the 1-based position list[index] reads, 0 when the
\* index is out of range (IndexError)
PyIndex(list, index) ==
    LET pos == IF index >= 0 THEN index + 1 ELSE Len(list) + index + 1
    IN  IF pos >= 1 /\ pos <= Len(list) THEN pos ELSE 0

\* The document holds its elements by reference.  An object is named by
\* the call that made it: <<n, j>> is the j-th dict the n-th call of the
\* log built, and the list that dict was given as its "groupIds".  An entry
\* of the document is a dict, which holds its "groupIds" list by reference
\* in turn.
Object(n, j) == [dict |-> <<n, j>>, groupIds |-> <<n, j>>]

\* the objects a call builds, in the order it builds them
New(n, count) == [j \in 1..count |-> Object(n, j)]

\* v is w: the two entries are one dict
SameDict(o, p) == o.dict = p.dict

\* v["groupIds"] is w["groupIds"]: the two dicts hold one list
SameList(v, o, w, p) ==
    /\ "groupIds" \in DOMAIN v
    /\ "groupIds" \in DOMAIN w
    /\ o.groupIds = p.groupIds

\* if "groupIds" not in d: d["groupIds"] = []   (the dict with the key set)
WithGroupIds(d) ==
    IF "groupIds" \in DOMAIN d
    THEN d
    ELSE [f \in DOMAIN d \cup {"groupIds"} |->
              IF f = "groupIds" THEN <<>> ELSE d[f]]

\* d["groupIds"].append(group_id), after the list is made where it is missing
Member(d, group_id) ==
    [WithGroupIds(d) EXCEPT !.groupIds = Append(@, group_id)]

\* One turn of the loop of call n on the dict at pos, changed in place.
\* Where the dict has no "groupIds" it is given a new list, which every
\* entry that is this dict then holds; the identifier is appended to the
\* list of the dict, which every entry holding that list then reads.  The
\* other entries are left as they are.
Joined(elems, objs, pos, group_id, n) ==
    IF "groupIds" \in DOMAIN elems[pos]
    THEN [elems |-> [k \in 1..Len(elems) |->
                        IF SameList(elems[k], objs[k], elems[pos], objs[pos])
                        THEN Member(elems[k], group_id)
                        ELSE elems[k]],
          objs |-> objs]
    ELSE [elems |-> [k \in 1..Len(elems) |->
                        IF SameDict(objs[k], objs[pos])
                        THEN Member(elems[k], group_id)
                        ELSE elems[k]],
          objs |-> [k \in 1..Len(objs) |->
                        IF SameDict(objs[k], objs[pos])
                        THEN [objs[k] EXCEPT !.groupIds = <<n, pos>>]
                        ELSE objs[k]]]

\* the loop of Diagram.group, called as call n, over the wrappers passed,
\* in order: the document after it, and whether an IndexError ended it
RECURSIVE group(_, _, _, _, _)
group(elems, objs, wrappers, group_id, n) ==
    IF wrappers = <<>>
    THEN [elems |-> elems, objs |-> objs, raised |-> None]
    ELSE LET pos == PyIndex(elems, _find_element_index(elems, Head(wrappers).id))
         IN  IF pos = 0
             THEN [elems |-> elems, objs |-> objs, raised |-> Some("IndexError")]
             ELSE LET doc == Joined(elems, objs, pos, group_id, n)
                  IN  group(doc.elems, doc.objs, Tail(wrappers), group_id, n)

\* mutant: the background of the document is the default one
to_dict_default_background ==
    [type |-> "excalidraw",
     version |-> 2,
     source |-> "https://excalidraw.com",
     elements |-> elements,
     appState |-> [gridSize |-> 20,
                   gridStep |-> 5,
                   gridModeEnabled |-> FALSE,
                   viewBackgroundColor |-> "#ffffff"],
     files |-> EmptyMap]

\* Diagram.to_dict
to_dict ==
    [type |-> "excalidraw",
     version |-> 2,
     source |-> "https://excalidraw.com",
     elements |-> elements,
     appState |-> [gridSize |-> 20,
                   gridStep |-> 5,
                   gridModeEnabled |-> FALSE,
                   viewBackgroundColor |-> background],
     files |-> EmptyMap]

----------------------------------------------------------------------------
\* The calls the caller makes: the inputs are drawn from these sets.

\* the number of calls made on the builder
MaxOps == 3

Str_A == <<"A">>

Str_go == <<"g", "o">>

Str_two_lines == <<"H", "i", "\n", "y", "o", "u">>

Str_Start == <<"S", "t", "a", "r", "t">>

Str_End == <<"E", "n", "d">>

Str_User == <<"U", "s", "e", "r">>

\* Diagram(background), Flowchart(direction, spacing), ArchitectureDiagram()
Constructors ==
    { [kind |-> "Diagram", background |-> "#f0f0f0",
       direction |-> "vertical", spacing |-> U(80)],
      [kind |-> "Flowchart", background |-> "#ffffff",
       direction |-> "vertical", spacing |-> U(80)],
      [kind |-> "Flowchart", background |-> "#ffffff",
       direction |-> "vertical", spacing |-> U(-60)],
      [kind |-> "Flowchart", background |-> "#ffffff",
       direction |-> "horizontal", spacing |-> U(-60)],
      [kind |-> "ArchitectureDiagram", background |-> "#ffffff",
       direction |-> "vertical", spacing |-> U(80)] }

\* A Flowchart or ArchitectureDiagram is driven through its own vocabulary;
\* the methods it inherits from Diagram are called on it with the first
\* input of each set only.
Inherited(first, others) == IF kind = "Diagram" THEN first \cup others ELSE first

\* box(x, y, label, width, height, color, shape, font_size)
BoxInputs ==
    Inherited(
    { [x |-> U(0), y |-> U(0), label |-> Str_A, width |-> U(150),
       height |-> U(60), color |-> "blue", shape |-> "rectangle", font_size |-> 18] },
    { [x |-> U(300), y |-> U(0), label |-> Str_go, width |-> U(120),
       height |-> U(80), color |-> "black", shape |-> "diamond", font_size |-> 18],
      [x |-> U(100), y |-> U(100), label |-> <<>>, width |-> U(150),
       height |-> U(60), color |-> "#ff0000", shape |-> "ellipse", font_size |-> 20] })

\* text_box(x, y, content, font_size, color)
TextBoxInputs ==
    Inherited(
    { [x |-> U(0), y |-> U(300), content |-> Str_two_lines, font_size |-> 20,
       color |-> "black"] },
    { [x |-> U(50), y |-> U(50), content |-> <<>>, font_size |-> 16,
       color |-> "red"],
      [x |-> U(0), y |-> U(0), content |-> Str_A, font_size |-> 16,
       color |-> "black"],
      [x |-> U(7), y |-> U(7), content |-> Str_A, font_size |-> 16,
       color |-> "black"] })

\* arrow_between(..., label, color, from_side, to_side)
ArrowInputs ==
    Inherited(
    { [label |-> None, color |-> "black", from_side |-> "auto", to_side |-> "auto"] },
    { [label |-> Some(<<>>), color |-> "black", from_side |-> "auto", to_side |-> "auto"],
      [label |-> Some(Str_go), color |-> "red", from_side |-> "auto", to_side |-> "auto"],
      [label |-> None, color |-> "black", from_side |-> "right", to_side |-> "auto"],
      [label |-> None, color |-> "black", from_side |-> "auto", to_side |-> "left"],
      [label |-> Some(Str_go), color |-> "black", from_side |-> "left", to_side |-> "bottom"] })

\* the wrappers the caller can pass: those it was given, and Foreign
Wrappers == {handles[k] : k \in 1..Len(handles)}

FactoryOps == {"rectangle", "ellipse", "diamond", "text", "arrow", "line"}

\* a Python list held by the caller; every other value it holds is a dict
PyList(items) == [list |-> items]

\* isinstance(elem, list)
IsList(elem) == DOMAIN elem = {"list"}

\* the factory calls made so far
Made == {k \in 1..Len(calls) : calls[k].op \in FactoryOps}

\* The dict v, which is the object o, as it reads now.  The caller holds it
\* by reference: where it is an entry of the document it reads as that
\* entry, and where the document holds its "groupIds" list it reads the
\* list as the document does.
Current(v, o) ==
    IF \E k \in 1..Len(objects) : SameDict(objects[k], o)
    THEN elements[CHOOSE k \in 1..Len(objects) : SameDict(objects[k], o)]
    ELSE IF \E k \in 1..Len(objects) : SameList(elements[k], objects[k], v, o)
         THEN [v EXCEPT !.groupIds =
                  elements[CHOOSE k \in 1..Len(objects) :
                               SameList(elements[k], objects[k], v, o)].groupIds]
         ELSE v

\* the result r of a factory call, made of the objects o, as it reads now:
\* a dict, or a list of dicts
Held(r, o) ==
    IF IsList(r)
    THEN PyList([i \in 1..Len(r.list) |-> Current(r.list[i], o.list[i])])
    ELSE Current(r, o)

\* the objects the k-th call returned: those it built
Returns(k) ==
    IF IsList(calls[k].ret[1])
    THEN PyList(New(k, Len(calls[k].ret[1].list)))
    ELSE Object(k, 1)

\* the result of the k-th call as the caller reads it now
Result(k) == Held(calls[k].ret[1], Returns(k))

\* what the caller holds: the results of its factory calls
Results == {Result(k) : k \in Made}

\* the dicts among them, those inside a list included
HeldDicts ==
    {r \in Results : ~IsList(r)}
    \cup UNION {{r.list[i] : i \in 1..Len(r.list)} : r \in {q \in Results : IsList(q)}}

\* the wrappers the caller builds on the dicts it holds:
\* Element(data, data["x"], data["y"], data["width"], data["height"])
Built == {Element(v, v.x, v.y, v.width, v.height) : v \in HeldDicts}

\* group(*elements): up to two wrappers, repeats allowed
GroupInputs ==
    LET pool == Wrappers \cup {Foreign}
    IN  Inherited({<<>>} \cup {<<w>> : w \in pool}, {<<v, w>> : v, w \in pool})

\* group(*elements) on a wrapper the caller built, once or twice over, or
\* on Foreign
BuiltGroupInputs ==
    Inherited({<<w>> : w \in Built \cup {Foreign}}, {<<w, w>> : w \in Built})

----------------------------------------------------------------------------
\* Diagram: one action per method

\* The effect of a call that made b: the elements of b are appended, each
\* having taken one uuid4 draw and two randint draws when it was built, and
\* the wrapper of b is returned.
Wrapped(op, args, b) ==
    /\ elements' = extend(elements, b.elems)
    /\ objects' = objects \o New(Len(calls) + 1, Len(b.elems))
    /\ handles' = Append(handles, b.ret)
    /\ ids' = ids + Len(b.elems)
    /\ seeds' = seeds + 2 * Len(b.elems)
    /\ calls' = Logged(op, args, Some(b.ret), None)

\* The effect of a call that drew elems and returns nothing.
Drew(op, args, elems) ==
    /\ elements' = extend(elements, elems)
    /\ objects' = objects \o New(Len(calls) + 1, Len(elems))
    /\ ids' = ids + Len(elems)
    /\ seeds' = seeds + 2 * Len(elems)
    /\ calls' = Logged(op, args, None, None)

Diagram_box ==
    /\ Len(calls) < MaxOps
    /\ \E a \in BoxInputs :
          Wrapped("box", a,
                  box(ids, seeds, a.x, a.y, a.label, a.width, a.height,
                      a.color, a.shape, a.font_size))
    /\ UNCHANGED <<kind, background, direction, spacing, _nodes, _next_x,
                   _next_y, _components>>

Diagram_text_box ==
    /\ Len(calls) < MaxOps
    /\ \E a \in TextBoxInputs :
          Wrapped("text_box", a,
                  text_box(ids, seeds, a.x, a.y, a.content, a.font_size, a.color))
    /\ UNCHANGED <<kind, background, direction, spacing, _nodes, _next_x,
                   _next_y, _components>>

Diagram_arrow_between ==
    /\ Len(calls) < MaxOps
    /\ \E source \in Wrappers, target \in Wrappers, a \in ArrowInputs :
          Drew("arrow_between", [source |-> source, target |-> target] @@ a,
               arrow_between(ids, seeds, source, target, a.label,
                             a.color, a.from_side, a.to_side))
    /\ UNCHANGED <<kind, background, direction, spacing, _nodes, _next_x,
                   _next_y, _components, handles>>

Diagram_line_between ==
    /\ Len(calls) < MaxOps
    /\ \E source \in Wrappers, target \in Wrappers :
          /\ elements' = extend(elements,
                                <<line_between(ids, seeds, source, target, "black")>>)
          /\ calls' = Logged("line_between",
                             [source |-> source, target |-> target, color |-> "black"],
                             None, None)
    /\ objects' = objects \o New(Len(calls) + 1, 1)
    /\ ids' = ids + 1
    /\ seeds' = seeds + 2
    /\ UNCHANGED <<kind, background, direction, spacing, _nodes, _next_x,
                   _next_y, _components, handles>>

\* The effect of a group call whose loop ended as done: the identifier is
\* returned unless the loop raised.
Grouped(wrappers, group_id, done) ==
    /\ elements' = done.elems
    /\ objects' = done.objs
    /\ calls' = Logged("group", [elements |-> wrappers],
                       IF done.raised = None THEN Some(group_id) ELSE None,
                       done.raised)

\* Diagram.group called on one of these inputs.  group_id is generated
\* first; an IndexError leaves the memberships the loop had already appended
group_called(inputs) ==
    /\ Len(calls) < MaxOps
    /\ \E wrappers \in inputs :
          Grouped(wrappers, _gen_id(ids), group(elements, objects, wrappers, _gen_id(ids),
                        Len(calls) + 1))
    /\ ids' = ids + 1
    /\ UNCHANGED <<kind, background, direction, spacing, _nodes, _next_x,
                   _next_y, _components, handles, seeds>>

Diagram_group == group_called(GroupInputs)

\* group on a document that may hold what Diagram.add put there
Diagram_group_built == group_called(BuiltGroupInputs)

----------------------------------------------------------------------------
\* The element factories are functions of the module: the caller calls one,
\* holds what it returned, and may later pass it to Diagram.add.

\* the number of factory calls made
MaxMade == 1

\* rectangle / ellipse / diamond (x, y, width, height, color, fill, rounded)
ShapeInputs ==
    Inherited(
    { [x |-> U(0), y |-> U(0), width |-> U(100), height |-> U(100),
       color |-> "blue", fill |-> TRUE, rounded |-> TRUE] },
    { [x |-> U(0), y |-> U(0), width |-> U(100), height |-> U(100),
       color |-> c, fill |-> f, rounded |-> TRUE] :
          c \in {"blue", "black", "white", "red_bg", "#ff0000"}, f \in BOOLEAN })

RectangleInputs ==
    ShapeInputs \cup
    Inherited({},
    { [x |-> U(-10), y |-> U(20), width |-> U(0), height |-> U(-5),
       color |-> "red", fill |-> TRUE, rounded |-> FALSE] })

\* text(x, y, content, font_size, font_family, color, align)
TextInputs ==
    Inherited(
    { [x |-> U(100), y |-> U(100), content |-> Str_Start, font_size |-> 20,
       font_family |-> "hand", color |-> "black", align |-> "center"] },
    { [x |-> U(0), y |-> U(0), content |-> Str_go, font_size |-> 16,
       font_family |-> "code", color |-> "violet", align |-> "left"],
      [x |-> U(0), y |-> U(0), content |-> Str_two_lines, font_size |-> 20,
       font_family |-> "serif", color |-> "#123456", align |-> "justify"],
      [x |-> U(0), y |-> U(0), content |-> <<>>, font_size |-> 20,
       font_family |-> "normal", color |-> "black", align |-> "right"],
      [x |-> U(5), y |-> U(5), content |-> <<>>, font_size |-> 15,
       font_family |-> "excalifont", color |-> "black", align |-> "center"] })

\* the segments arrow and line are called on: (start_x, start_y, end_x, end_y)
SegmentInputs ==
    Inherited(
    { <<U(0), U(0), U(100), U(50)>> },
    { <<U(100), U(50), U(0), U(0)>>,
      <<U(0), U(30), U(100), U(30)>>, <<U(50), U(90), U(50), U(-15)>> })

\* arrow(start_x, start_y, end_x, end_y, color, start_head, end_head, label)
ArrowFactoryInputs ==
    { [seg |-> g, color |-> "black", start_head |-> None, end_head |-> "arrow",
       label |-> l] : g \in SegmentInputs, l \in Inherited({Some(Str_go)}, {None}) }
    \cup
    Inherited({},
    { [seg |-> <<U(0), U(0), U(100), U(0)>>, color |-> "red", start_head |-> None,
       end_head |-> "arrow", label |-> Some(<<>>)],
      [seg |-> <<U(0), U(0), U(100), U(0)>>, color |-> "black",
       start_head |-> Some("arrow"), end_head |-> "dot", label |-> None],
      [seg |-> <<U(0), U(0), U(0), U(0)>>, color |-> "black",
       start_head |-> Some("none"), end_head |-> "square", label |-> None] })

\* the caller has calls left, and factory calls among them
MayMake == Len(calls) < MaxOps /\ Cardinality(Made) < MaxMade

\* A call of a factory: it draws the identifiers and seeds of what it
\* builds and returns it; the document is not touched.
Factory(op, a, ret, drawn) ==
    /\ ids' = ids + drawn
    /\ seeds' = seeds + 2 * drawn
    /\ calls' = Logged(op, a, Some(ret), None)
    /\ UNCHANGED <<kind, background, elements, objects, direction, spacing,
                   _nodes, _next_x, _next_y, _components, handles>>

\* a factory that returns the list of what it built
FactoryOfList(op, a, made) == Factory(op, a, PyList(made), Len(made))

Factory_rectangle ==
    /\ MayMake
    /\ \E a \in RectangleInputs :
          Factory("rectangle", a,
                  rectangle(ids, seeds, a.x, a.y, a.width, a.height, a.color,
                            a.fill, a.rounded), 1)

Factory_ellipse ==
    /\ MayMake
    /\ \E a \in ShapeInputs :
          Factory("ellipse", a,
                  ellipse(ids, seeds, a.x, a.y, a.width, a.height, a.color, a.fill), 1)

Factory_diamond ==
    /\ MayMake
    /\ \E a \in ShapeInputs :
          Factory("diamond", a,
                  diamond(ids, seeds, a.x, a.y, a.width, a.height, a.color, a.fill), 1)

Factory_text ==
    /\ MayMake
    /\ \E a \in TextInputs :
          Factory("text", a,
                  text(ids, seeds, a.x, a.y, a.content, a.font_size, a.font_family,
                       a.color, a.align), 1)

Factory_arrow ==
    /\ MayMake
    /\ \E a \in ArrowFactoryInputs :
          FactoryOfList("arrow", a,
                        arrow(ids, seeds, a.seg[1], a.seg[2], a.seg[3], a.seg[4],
                              a.color, a.start_head, a.end_head, a.label))

Factory_line ==
    /\ MayMake
    /\ \E g \in SegmentInputs :
          Factory("line", [seg |-> g, color |-> "black"],
                  line(ids, seeds, g[1], g[2], g[3], g[4], "black"), 1)

\* what the caller can pass to add: the results of its factory calls, each
\* named by the call that returned it
\* add(*elements): one or two results, repeats allowed
AddInputs == {<<k>> : k \in Made} \cup {<<k, l>> : k, l \in Made}

\* the loop of Diagram.add over the values passed, in order: a list is
\* extended into the document, anything else is appended
RECURSIVE add(_, _)
add(elems, passed) ==
    IF passed = <<>>
    THEN elems
    ELSE add(IF IsList(Head(passed))
             THEN extend(elems, Head(passed).list)
             ELSE extend(elems, <<Head(passed)>>),
             Tail(passed))

\* The effect of an add call that was passed these values, which are these
\* objects: the document holds the objects themselves.
Added(passed, these) ==
    /\ elements' = add(elements, passed)
    /\ objects' = add(objects, these)
    /\ calls' = Logged("add", [elements |-> passed], None, None)

\* Diagram.add, inherited by Flowchart and ArchitectureDiagram: nothing is
\* drawn and nothing is returned
Diagram_add ==
    /\ Len(calls) < MaxOps
    /\ \E ks \in AddInputs :
          Added([i \in 1..Len(ks) |-> Result(ks[i])],
                [i \in 1..Len(ks) |-> Returns(ks[i])])
    /\ UNCHANGED <<kind, background, direction, spacing, _nodes, _next_x,
                   _next_y, _components, handles, ids, seeds>>

----------------------------------------------------------------------------
\* Flowchart

\* node(node_id, label, shape, color, width, height)
NodeInputs ==
    { [node_id |-> "b", label |-> Str_go, shape |-> "ellipse", color |-> "gray",
       width |-> U(0), height |-> U(0)] }

\* connect(from_id, to_id, label): "zz" is never registered
FlowInputs ==
    { [from_id |-> "__start__", to_id |-> "a", label |-> None],
      [from_id |-> "a", to_id |-> "__start__", label |-> Some(Str_go)],
      [from_id |-> "a", to_id |-> "a", label |-> None],
      [from_id |-> "a", to_id |-> "zz", label |-> Some(Str_go)],
      [from_id |-> "zz", to_id |-> "a", label |-> None] }

\* position_at(x, y)
PositionInputs == { [x |-> U(500), y |-> U(300)] }

\* mutant: the axes are swapped
advance_swapped(dir, next_x, next_y, width, height, space) ==
    IF dir = "vertical"
    THEN <<FAdd(next_x, FAdd(width, space)), next_y>>
    ELSE <<next_x, FAdd(next_y, FAdd(height, space))>>

\* mutant: the cursor moves by the extent alone
advance_no_spacing(dir, next_x, next_y, width, height, space) ==
    IF dir = "vertical"
    THEN <<next_x, FAdd(next_y, height)>>
    ELSE <<FAdd(next_x, width), next_y>>

\* the cursor after a node of this extent (lines 607-610)
advance(dir, next_x, next_y, width, height, space) ==
    IF dir = "vertical"
    THEN <<next_x, FAdd(next_y, FAdd(height, space))>>
    ELSE <<FAdd(next_x, FAdd(width, space)), next_y>>

\* The effect of a node call that made the box b: the box is registered
\* under the key and the cursor moves on.
node_made(op, a, b, cursor) ==
    /\ Wrapped(op, a, b)
    /\ _nodes' = Store(_nodes, a.node_id, b.ret)
    /\ _next_x' = cursor[1]
    /\ _next_y' = cursor[2]

\* Flowchart.node, called as op with these arguments
node(op, a) ==
    /\ kind = "Flowchart"
    /\ Len(calls) < MaxOps
    /\ node_made(op, a,
                 box(ids, seeds, _next_x, _next_y, a.label, a.width, a.height,
                     a.color, a.shape, 18),
                 advance(direction, _next_x, _next_y, a.width, a.height, spacing))
    /\ UNCHANGED <<kind, background, direction, spacing, _components>>

Flowchart_node == \E a \in NodeInputs : node("node", a)

Flowchart_start ==
    node("start", [node_id |-> "__start__", label |-> Str_Start, shape |-> "ellipse",
                   color |-> "green", width |-> U(150), height |-> U(60)])

Flowchart_end ==
    node("end", [node_id |-> "__end__", label |-> Str_End, shape |-> "ellipse",
                 color |-> "red", width |-> U(150), height |-> U(60)])

Flowchart_process ==
    node("process", [node_id |-> "a", label |-> Str_go, shape |-> "rectangle",
                     color |-> "blue", width |-> U(150), height |-> U(60)])

Flowchart_decision ==
    node("decision", [node_id |-> "a", label |-> Str_A, shape |-> "diamond",
                      color |-> "yellow", width |-> U(120), height |-> U(80)])

\* mutant: "source or target", the wrapper found stands in for the missing one
connect_either(i, s, source, target, label, color) ==
    IF source # None \/ target # None
    THEN arrow_between(i, s,
                       IF source # None THEN source[1] ELSE target[1],
                       IF target # None THEN target[1] ELSE source[1],
                       label, color, "auto", "auto")
    ELSE <<>>

\* the elements a connect appends: none unless both wrappers were found
connect(i, s, source, target, label, color) ==
    IF source # None /\ target # None
    THEN arrow_between(i, s, source[1], target[1], label, color, "auto", "auto")
    ELSE <<>>

Flowchart_connect ==
    /\ kind = "Flowchart"
    /\ Len(calls) < MaxOps
    /\ \E a \in FlowInputs :
          Drew("connect",
               [from_id |-> a.from_id, to_id |-> a.to_id, label |-> a.label,
                color |-> "black", bidirectional |-> FALSE],
               connect(ids, seeds, Lookup(_nodes, a.from_id),
                       Lookup(_nodes, a.to_id), a.label, "black"))
    /\ UNCHANGED <<kind, background, direction, spacing, _nodes, _next_x,
                   _next_y, _components, handles>>

Flowchart_position_at ==
    /\ kind = "Flowchart"
    /\ Len(calls) < MaxOps
    /\ \E a \in PositionInputs :
          /\ _next_x' = a.x
          /\ _next_y' = a.y
          /\ calls' = Logged("position_at", a, Some("self"), None)
    /\ UNCHANGED <<kind, background, elements, objects, direction, spacing,
                   _nodes, _components, handles, ids, seeds>>

----------------------------------------------------------------------------
\* ArchitectureDiagram

\* component(comp_id, label, x, y) with the default extent and colour
ComponentInputs ==
    { [comp_id |-> "a", label |-> Str_A, x |-> U(0), y |-> U(0)],
      [comp_id |-> "b", label |-> Str_go, x |-> U(300), y |-> U(0)],
      [comp_id |-> "b", label |-> Str_go, x |-> U(100), y |-> U(100)],
      [comp_id |-> "b", label |-> Str_go, x |-> U(-5), y |-> U(-5)] }

\* connect(from_id, to_id, label, bidirectional): "zz" is never registered
ConnectInputs ==
    { [from_id |-> "a", to_id |-> "b", label |-> None, bidirectional |-> FALSE],
      [from_id |-> "a", to_id |-> "b", label |-> Some(Str_go), bidirectional |-> TRUE],
      [from_id |-> "b", to_id |-> "a", label |-> None, bidirectional |-> TRUE],
      [from_id |-> "a", to_id |-> "a", label |-> Some(Str_go), bidirectional |-> TRUE],
      [from_id |-> "a", to_id |-> "zz", label |-> Some(Str_go), bidirectional |-> FALSE],
      [from_id |-> "zz", to_id |-> "b", label |-> None, bidirectional |-> TRUE] }

\* The effect of a component call that made the box b.
placed_made(op, a, b) ==
    /\ Wrapped(op, a, b)
    /\ _components' = Store(_components, a.comp_id, b.ret)

\* component, database, service and user: a box registered under a key
placed(op, a, width, height, color, shape) ==
    /\ kind = "ArchitectureDiagram"
    /\ Len(calls) < MaxOps
    /\ placed_made(op, a,
                   box(ids, seeds, a.x, a.y, a.label, width, height, color, shape, 18))
    /\ UNCHANGED <<kind, background, direction, spacing, _nodes, _next_x,
                   _next_y>>

Architecture_component ==
    \E a \in ComponentInputs : placed("component", a, U(150), U(80), "blue", "rectangle")

Architecture_database ==
    placed("database", [comp_id |-> "b", label |-> Str_go, x |-> U(0), y |-> U(300)],
           U(120), U(60), "green", "ellipse")

Architecture_service ==
    placed("service", [comp_id |-> "a", label |-> Str_A, x |-> U(0), y |-> U(0)],
           U(140), U(70), "violet", "rectangle")

Architecture_user ==
    placed("user", [comp_id |-> "b", label |-> Str_User, x |-> U(100), y |-> U(100)],
           U(80), U(80), "gray", "ellipse")

\* mutant: the return arrow is given the label as well
connect_components_label_both(i, s, source, target, label, bidirectional, color) ==
    LET forward == connect(i, s, source, target, label, color)
        back == IF source # None /\ target # None /\ bidirectional
                THEN arrow_between(i + Len(forward), s + 2 * Len(forward),
                                   target[1], source[1], label, color, "auto", "auto")
                ELSE <<>>
    IN  forward \o back

\* mutant: the return arrow is drawn from the source to the target again
connect_components_unswapped(i, s, source, target, label, bidirectional, color) ==
    LET forward == connect(i, s, source, target, label, color)
        back == IF source # None /\ target # None /\ bidirectional
                THEN arrow_between(i + Len(forward), s + 2 * Len(forward),
                                   source[1], target[1], None, color, "auto", "auto")
                ELSE <<>>
    IN  forward \o back

\* the elements ArchitectureDiagram.connect appends: the forward arrow with
\* the label and, when bidirectional, the return arrow without one
connect_components(i, s, source, target, label, bidirectional, color) ==
    LET forward == connect(i, s, source, target, label, color)
        back == IF source # None /\ target # None /\ bidirectional
                THEN arrow_between(i + Len(forward), s + 2 * Len(forward),
                                   target[1], source[1], None, color, "auto", "auto")
                ELSE <<>>
    IN  forward \o back

Architecture_connect ==
    /\ kind = "ArchitectureDiagram"
    /\ Len(calls) < MaxOps
    /\ \E a \in ConnectInputs :
          Drew("connect",
               [from_id |-> a.from_id, to_id |-> a.to_id, label |-> a.label,
                color |-> "black", bidirectional |-> a.bidirectional],
               connect_components(ids, seeds, Lookup(_components, a.from_id),
                                  Lookup(_components, a.to_id), a.label,
                                  a.bidirectional, "black"))
    /\ UNCHANGED <<kind, background, direction, spacing, _nodes, _next_x,
                   _next_y, _components, handles>>

----------------------------------------------------------------------------
\* The builder as its caller drives it.

\* The state after the constructor: the other Diagram's box has taken two
\* uuid4 draws and four randint draws.
Init ==
    /\ \E c \in Constructors :
          /\ kind = c.kind
          /\ background = c.background
          /\ direction = c.direction
          /\ spacing = c.spacing
    /\ elements = <<>>
    /\ objects = <<>>
    /\ _nodes = EmptyMap
    /\ _next_x = U(100)
    /\ _next_y = U(100)
    /\ _components = EmptyMap
    /\ handles = <<>>
    /\ ids = 2
    /\ seeds = 4
    /\ calls = <<>>

Next ==
    \/ Diagram_box
    \/ Diagram_text_box
    \/ Diagram_arrow_between
    \/ Diagram_line_between
    \/ Diagram_group
    \/ Flowchart_node
    \/ Flowchart_start
    \/ Flowchart_end
    \/ Flowchart_process
    \/ Flowchart_decision
    \/ Flowchart_connect
    \/ Flowchart_position_at
    \/ Architecture_component
    \/ Architecture_database
    \/ Architecture_service
    \/ Architecture_user
    \/ Architecture_connect

Spec == Init /\ [][Next]_vars

\* The element factories and the builder they are added to: the caller
\* calls a factory, adds what it holds to a builder of any class, before or
\* after the builder made elements of its own, and groups what is there.
FactoryInit == Init

FactoryNext ==
    \/ Factory_rectangle
    \/ Factory_ellipse
    \/ Factory_diamond
    \/ Factory_text
    \/ Factory_arrow
    \/ Factory_line
    \/ Diagram_add
    \/ Diagram_text_box
    \/ Diagram_group_built

FactorySpec == FactoryInit /\ [][FactoryNext]_vars

----------------------------------------------------------------------------
\* Properties.  What a call did is read off the call log: call k found
\* calls[k].pre elements and left the document at the length the next call
\* found.

Last == calls[Len(calls)]

\* the number of elements call k appended
AppendedBy(k) ==
    (IF k < Len(calls) THEN calls[k + 1].pre ELSE Len(elements)) - calls[k].pre

\* the j-th element call k appended
AppendedElem(k, j) == elements[calls[k].pre + j]

\* the elements factory call k returned, in order
Returned(k) ==
    IF IsList(calls[k].ret[1]) THEN calls[k].ret[1].list ELSE <<calls[k].ret[1]>>

BoxOps == {"box", "node", "start", "end", "process", "decision",
           "component", "database", "service", "user"}

NodeOps == {"node", "start", "end", "process", "decision"}

ShapeTypes == {"rectangle", "ellipse", "diamond"}

\* |v| of a number
Magnitude(v) == IF FLess(v, U(0)) THEN FNeg(v) ELSE v

\* C1: in every reachable state no two elements of the document have the
\* same id.
C1_UniqueIds ==
    \A i, j \in 1..Len(elements) :
        i # j => elements[i].id # elements[j].id

\* three box calls have left six elements with six ids
C1_Witness ==
    /\ Len(calls) = 3
    /\ \A k \in 1..3 : calls[k].op = "box"
    /\ Cardinality({elements[i].id : i \in 1..Len(elements)}) = 6

\* C2: every step leaves the elements that were in the document where they
\* were, with the same ids in the same order, and no element of the
\* document is flagged deleted.
C2_AppendOnly ==
    [][/\ Len(elements) <= Len(elements')
       /\ \A i \in 1..Len(elements) : elements'[i].id = elements[i].id
       /\ \A i \in 1..Len(elements') : ~elements'[i].isDeleted]_vars

\* a group call changed an element that is not the last of the document,
\* after which another call appended
C2_Witness ==
    /\ Len(calls) = 3
    /\ calls[1].op = "box"
    /\ calls[2].op = "group"
    /\ elements[1].groupIds # <<>>
    /\ AppendedBy(3) > 0

\* C3: box (also when a node or component method calls it) appends exactly
\* the shape and then its text and returns a wrapper with the shape's id
\* and geometry; and every text with a container reference has exactly one
\* element with that id, a shape whose boundElements is the one entry for
\* the text, with the same x, y, width and height, the text being aligned
\* center/middle.
C3_ContainerBinding ==
    /\ \A k \in 1..Len(calls) :
          calls[k].op \in BoxOps =>
              /\ AppendedBy(k) = 2
              /\ AppendedElem(k, 1).type \in ShapeTypes
              /\ AppendedElem(k, 2).type = "text"
              /\ calls[k].ret # None
              /\ calls[k].ret[1].id = AppendedElem(k, 1).id
              /\ calls[k].ret[1].x = AppendedElem(k, 1).x
              /\ calls[k].ret[1].y = AppendedElem(k, 1).y
              /\ calls[k].ret[1].width = AppendedElem(k, 1).width
              /\ calls[k].ret[1].height = AppendedElem(k, 1).height
    /\ \A t \in 1..Len(elements) :
          (elements[t].type = "text" /\ elements[t].containerId # None) =>
              LET holders == {j \in 1..Len(elements) :
                                 elements[j].id = elements[t].containerId[1]}
              IN  /\ Cardinality(holders) = 1
                  /\ \A j \in holders :
                        /\ elements[j].type \in ShapeTypes
                        /\ elements[j].boundElements =
                              Some(<<[id |-> elements[t].id, type |-> "text"]>>)
                        /\ elements[t].x = elements[j].x
                        /\ elements[t].y = elements[j].y
                        /\ elements[t].width = elements[j].width
                        /\ elements[t].height = elements[j].height
                  /\ elements[t].textAlign = "center"
                  /\ elements[t].verticalAlign = "middle"

\* a box was made, then grouped, and the document has a bound text
C3_Witness ==
    /\ Len(calls) >= 2
    /\ calls[1].op = "box"
    /\ Last.op = "group"
    /\ Last.raised = None
    /\ elements[2].type = "text"
    /\ elements[2].containerId = Some(elements[1].id)
    /\ elements[1].groupIds # <<>>

\* the centre of a wrapper, computed in floating point as every number of
\* the program is
CentreX(w) == FAdd(w.x, Half(w.width))

CentreY(w) == FAdd(w.y, Half(w.height))

\* the anchor of a side of a wrapper: the edge coordinate and the centre of
\* the other axis
Anchor(w, side) ==
    CASE side = "right" -> <<FAdd(w.x, w.width), CentreY(w)>>
      [] side = "left" -> <<w.x, CentreY(w)>>
      [] side = "bottom" -> <<CentreX(w), FAdd(w.y, w.height)>>
      [] side = "top" -> <<CentreX(w), w.y>>

\* an arrow element runs from p to q: it is anchored at p and its second
\* point is the difference q - p
Runs(a, p, q) ==
    /\ <<a.x, a.y>> = p
    /\ a.points = <<(<<U(0), U(0)>>), (<<FSub(q[1], p[1]), FSub(q[2], p[2])>>)>>

\* the sides the rule of C4 selects
AutoFrom(dx, dy) ==
    IF FLess(Magnitude(dy), Magnitude(dx))
    THEN (IF FLess(U(0), dx) THEN "right" ELSE "left")
    ELSE (IF FLess(U(0), dy) THEN "bottom" ELSE "top")

AutoTo(dx, dy) ==
    IF FLess(Magnitude(dy), Magnitude(dx))
    THEN (IF FLess(U(0), dx) THEN "left" ELSE "right")
    ELSE (IF FLess(U(0), dy) THEN "top" ELSE "bottom")

IsAutoArrow(c) ==
    c.op = "arrow_between" /\ c.args.from_side = "auto" /\ c.args.to_side = "auto"

\* C4: arrow_between with both sides "auto" appends an arrow from the
\* anchor of the selected side of the source to the anchor of the selected
\* side of the target: horizontal when |dx| > |dy|, vertical otherwise, the
\* tie included.
C4_AutoSides ==
    \A k \in 1..Len(calls) :
        IsAutoArrow(calls[k]) =>
            LET src == calls[k].args.source
                tgt == calls[k].args.target
                dx == FSub(CentreX(tgt), CentreX(src))
                dy == FSub(CentreY(tgt), CentreY(src))
                a == AppendedElem(k, 1)
            IN  /\ AppendedBy(k) >= 1
                /\ a.type = "arrow"
                /\ Runs(a, Anchor(src, AutoFrom(dx, dy)),
                        Anchor(tgt, AutoTo(dx, dy)))

\* an auto arrow was drawn between two boxes whose centres differ by the
\* same amount on both axes
C4_Witness ==
    /\ Len(calls) >= 1
    /\ IsAutoArrow(Last)
    /\ CentreX(Last.args.target) # CentreX(Last.args.source)
    /\ Magnitude(FSub(CentreX(Last.args.target), CentreX(Last.args.source)))
          = Magnitude(FSub(CentreY(Last.args.target), CentreY(Last.args.source)))

\* the registry connect looks its keys up in
Registry == IF kind = "Flowchart" THEN _nodes ELSE _components

\* the step is a connect call, one of whose keys is not registered
ConnectMiss ==
    /\ Len(calls') = Len(calls) + 1
    /\ calls'[Len(calls')].op = "connect"
    /\ \/ calls'[Len(calls')].args.from_id \notin DOMAIN Registry
       \/ calls'[Len(calls')].args.to_id \notin DOMAIN Registry

\* C5: a connect with a key that is not registered raises nothing and
\* leaves the elements, the registry and the cursor as they were.
C5_LookupMiss ==
    [][ConnectMiss =>
          /\ calls'[Len(calls')].raised = None
          /\ elements' = elements
          /\ _nodes' = _nodes
          /\ _components' = _components
          /\ _next_x' = _next_x
          /\ _next_y' = _next_y]_vars

\* a bidirectional connect named a registered component and a missing key
C5_Witness ==
    /\ Len(calls) >= 2
    /\ Last.op = "connect"
    /\ Last.args.bidirectional
    /\ Last.args.from_id \notin DOMAIN Registry
    /\ Last.args.to_id \in DOMAIN Registry
    /\ AppendedBy(Len(calls)) = 0

\* the calls that made a node, in order
NodeCalls == SelectSeq(calls, LAMBDA c : c.op \in NodeOps)

NoPositionAt == \A k \in 1..Len(calls) : calls[k].op # "position_at"

\* C6 as claimed: without position_at, each node lies strictly further
\* along the axis than the node before it and level with it on the other
\* axis, whatever the spacing and the extents.
C6_CursorAdvances ==
    (kind = "Flowchart" /\ NoPositionAt) =>
        \A n \in 1..(Len(NodeCalls) - 1) :
            LET p == NodeCalls[n].ret[1]
                q == NodeCalls[n + 1].ret[1]
            IN  IF direction = "vertical"
                THEN FLess(p.y, q.y) /\ q.x = p.x
                ELSE FLess(p.x, q.x) /\ q.y = p.y

\* C6 amended: without position_at, each node is level with the node
\* before it on the other axis, and lies strictly further along the axis
\* whenever the extent of the node before it plus the spacing is positive.
C6_CursorAdvancesWhenPositive ==
    (kind = "Flowchart" /\ NoPositionAt) =>
        \A n \in 1..(Len(NodeCalls) - 1) :
            LET p == NodeCalls[n].ret[1]
                q == NodeCalls[n + 1].ret[1]
            IN  IF direction = "vertical"
                THEN /\ q.x = p.x
                     /\ FLess(U(0), FAdd(p.height, spacing)) => FLess(p.y, q.y)
                ELSE /\ q.y = p.y
                     /\ FLess(U(0), FAdd(p.width, spacing)) => FLess(p.x, q.x)

\* three nodes in a row under a negative spacing, each extent outweighing it
C6_Witness ==
    /\ kind = "Flowchart"
    /\ NoPositionAt
    /\ FLess(spacing, U(0))
    /\ Len(NodeCalls) = 3
    /\ \A n \in 1..2 :
          IF direction = "vertical"
          THEN FLess(U(0), FAdd(NodeCalls[n].ret[1].height, spacing))
          ELSE FLess(U(0), FAdd(NodeCalls[n].ret[1].width, spacing))

\* C7: the element arrow and line build sits at the start point, its points
\* are (0,0) and the signed deltas to the end point, and its width and
\* height are the magnitudes of the deltas.
C7_ConnectorGeometry ==
    \A k \in 1..Len(calls) :
        calls[k].op \in {"arrow", "line"} =>
            LET g == calls[k].args.seg
                e == Returned(k)[1]
            IN  /\ e.type = calls[k].op
                /\ e.x = g[1]
                /\ e.y = g[2]
                /\ e.points = <<(<<U(0), U(0)>>),
                                (<<FSub(g[3], g[1]), FSub(g[4], g[2])>>)>>
                /\ e.width = Magnitude(FSub(g[3], g[1]))
                /\ e.height = Magnitude(FSub(g[4], g[2]))
                /\ ~FLess(e.width, U(0))
                /\ ~FLess(e.height, U(0))

\* a line was built on a segment going up and left, and added
C7_Witness ==
    /\ Len(calls) = 2
    /\ calls[1].op = "line"
    /\ FLess(calls[1].args.seg[3], calls[1].args.seg[1])
    /\ FLess(calls[1].args.seg[4], calls[1].args.seg[2])
    /\ FLess(U(0), Returned(1)[1].width)
    /\ calls[2].op = "add"
    /\ elements = Returned(1)

\* C8 as claimed: arrow_between appends what arrow returns, the arrow alone
\* when no label is given and the arrow followed by a text holding the
\* label when a label is given, whatever the label string.
C8_LabelAlwaysAdded ==
    \A k \in 1..Len(calls) :
        calls[k].op = "arrow_between" =>
            /\ AppendedElem(k, 1).type = "arrow"
            /\ IF calls[k].args.label = None
               THEN AppendedBy(k) = 1
               ELSE /\ AppendedBy(k) = 2
                    /\ AppendedElem(k, 2).type = "text"
                    /\ AppendedElem(k, 2).text = calls[k].args.label[1]

\* C8 amended: the label text is added for every non-empty label string;
\* the empty string is taken as no label and the arrow comes alone.
C8_LabelAddedWhenNonEmpty ==
    \A k \in 1..Len(calls) :
        calls[k].op = "arrow_between" =>
            /\ AppendedElem(k, 1).type = "arrow"
            /\ IF calls[k].args.label = None \/ calls[k].args.label = Some(<<>>)
               THEN AppendedBy(k) = 1
               ELSE /\ AppendedBy(k) = 2
                    /\ AppendedElem(k, 2).type = "text"
                    /\ AppendedElem(k, 2).text = calls[k].args.label[1]

\* one arrow was drawn with the empty label and one with a label of two
\* characters
C8_Witness ==
    /\ Len(calls) = 3
    /\ calls[2].op = "arrow_between"
    /\ calls[2].args.label = Some(<<>>)
    /\ calls[3].op = "arrow_between"
    /\ calls[3].args.label = Some(Str_go)
    /\ Len(elements) = 5

\* the keys registered before call k
RegisteredBefore(k) ==
    {calls[j].args.node_id : j \in {i \in 1..(k - 1) : calls[i].op \in NodeOps}}
    \cup
    {calls[j].args.comp_id :
        j \in {i \in 1..(k - 1) :
                  calls[i].op \in {"component", "database", "service", "user"}}}

ConnectHit(k) ==
    /\ calls[k].args.from_id \in RegisteredBefore(k)
    /\ calls[k].args.to_id \in RegisteredBefore(k)

\* the fewest and the most elements C9 lets call k append: an arrow_between
\* (one or two of which a connect with both keys makes) is 1 or 2
Fewest(k) ==
    CASE calls[k].op \in BoxOps -> 2
      [] calls[k].op \in {"text_box", "line_between", "arrow_between"} -> 1
      [] calls[k].op \in {"group", "position_at"} -> 0
      [] calls[k].op = "connect" ->
            IF ConnectHit(k)
            THEN (IF calls[k].args.bidirectional THEN 2 ELSE 1)
            ELSE 0

Most(k) ==
    CASE calls[k].op \in BoxOps -> 2
      [] calls[k].op \in {"text_box", "line_between"} -> 1
      [] calls[k].op = "arrow_between" -> 2
      [] calls[k].op \in {"group", "position_at"} -> 0
      [] calls[k].op = "connect" ->
            IF ConnectHit(k)
            THEN (IF calls[k].args.bidirectional THEN 4 ELSE 2)
            ELSE 0

RECURSIVE Total(_, _)
Total(Count(_), k) == IF k = 0 THEN 0 ELSE Count(k) + Total(Count, k - 1)

\* C9: to_dict gives type "excalidraw", version 2, no files, the diagram's
\* background, and the elements in the order they were made, as many as the
\* calls made so far append: 2 per box, 1 per text_box and line_between, 1
\* or 2 per arrow_between, none per group, position_at or connect with a
\* missing key.
C9_Document ==
    /\ to_dict.type = "excalidraw"
    /\ to_dict.version = 2
    /\ DOMAIN to_dict.files = {}
    /\ to_dict.appState.viewBackgroundColor = background
    /\ \A i, j \in 1..Len(to_dict.elements) :
          i < j => to_dict.elements[i].id < to_dict.elements[j].id
    /\ \A k \in 1..Len(calls) :
          AppendedBy(k) >= Fewest(k) /\ AppendedBy(k) <= Most(k)
    /\ Len(to_dict.elements) >= Total(Fewest, Len(calls))
    /\ Len(to_dict.elements) <= Total(Most, Len(calls))

\* two boxes and a labelled arrow between them, on a diagram with a
\* background of its own: six elements
C9_Witness ==
    /\ Len(calls) = 3
    /\ calls[1].op = "box"
    /\ calls[2].op = "box"
    /\ calls[3].op = "arrow_between"
    /\ Len(to_dict.elements) = 6
    /\ to_dict.appState.viewBackgroundColor = "#f0f0f0"

\* the light variant of each colour name that has one
LightVariant ==
    [red |-> "#ffe3e3", pink |-> "#ffdeeb", grape |-> "#f3d9fa",
     violet |-> "#e5dbff", blue |-> "#d0ebff", cyan |-> "#c5f6fa",
     teal |-> "#c3fae8", green |-> "#d3f9d8", yellow |-> "#fff3bf",
     orange |-> "#ffe8cc", gray |-> "#e9ecef"]

\* C10: a shape's strokeColor is the palette literal of the colour name, or
\* the input itself when the palette has no such name; its backgroundColor
\* is "transparent" without fill and, with fill, the light variant of the
\* colour name when there is one and "transparent" when there is none.
C10_ShapeColours ==
    \A k \in 1..Len(calls) :
        calls[k].op \in ShapeTypes =>
            LET color == calls[k].args.color
                e == Returned(k)[1]
            IN  /\ e.type = calls[k].op
                /\ e.strokeColor =
                      (IF color \in DOMAIN COLORS THEN COLORS[color] ELSE color)
                /\ e.backgroundColor =
                      (IF calls[k].args.fill /\ color \in DOMAIN LightVariant
                       THEN LightVariant[color]
                       ELSE "transparent")

\* a filled ellipse in a raw hex colour was built and added: the document
\* holds it with the colour as given and no background
C10_Witness ==
    /\ Len(calls) = 2
    /\ calls[1].op = "ellipse"
    /\ calls[1].args.fill
    /\ calls[1].args.color = "#ff0000"
    /\ calls[2].op = "add"
    /\ Len(elements) = 1
    /\ elements[1].strokeColor = "#ff0000"
    /\ elements[1].backgroundColor = "transparent"

\* C11: text stores as fontFamily the table's literal for a font name of the
\* table, and the name itself, unchanged, for a name the table does not
\* have (values are compared by their printed form, a name and a number
\* being of different kinds).  text looks the name up with 1 as the default
\* (FONT_FAMILY.get(font_family, 1)), so a name outside the table is stored
\* as 1 and the property fails on it.
C11_FontPassThrough ==
    \A k \in 1..Len(calls) :
        calls[k].op = "text" =>
            LET name == calls[k].args.font_family
                e == Returned(k)[1]
            IN  ToString(e.fontFamily) =
                    (IF name \in DOMAIN FONT_FAMILY
                     THEN ToString(FONT_FAMILY[name])
                     ELSE ToString(name))

\* the call made a text from a content of no character
EmptyTextCall(c) ==
    c.op \in {"text", "text_box"} /\ c.args.content = <<>>

\* the text element call k made: what text returned, what text_box appended
MadeText(k) ==
    IF calls[k].op = "text" THEN Returned(k)[1] ELSE AppendedElem(k, 1)

\* C12 as claimed: text and text_box on a content of no character raise
\* nothing and make one text element of width 0 and height 0, whatever the
\* font size.
C12_EmptyTextIsFlat ==
    \A k \in 1..Len(calls) :
        EmptyTextCall(calls[k]) =>
            /\ calls[k].raised = None
            /\ (calls[k].op = "text_box" => AppendedBy(k) = 1)
            /\ MadeText(k).type = "text"
            /\ MadeText(k).width = U(0)
            /\ MadeText(k).height = U(0)

\* C12 amended: text and text_box on a content of no character raise
\* nothing and make one text element of width 0 and of the height of one
\* line, 1.35 times the font size.
C12_EmptyTextIsOneLine ==
    \A k \in 1..Len(calls) :
        EmptyTextCall(calls[k]) =>
            /\ calls[k].raised = None
            /\ (calls[k].op = "text_box" => AppendedBy(k) = 1)
            /\ MadeText(k).type = "text"
            /\ MadeText(k).width = U(0)
            /\ MadeText(k).height = Times135(calls[k].args.font_size)

\* text and text_box were both called on a content of no character, in
\* different font sizes
C12_Witness ==
    /\ Len(calls) >= 2
    /\ calls[1].op = "text"
    /\ calls[2].op = "text_box"
    /\ EmptyTextCall(calls[1])
    /\ EmptyTextCall(calls[2])
    /\ calls[1].args.font_size # calls[2].args.font_size
    /\ MadeText(1).height # MadeText(2).height

PlacedOps == {"component", "database", "service", "user"}

\* the key a call registered its box under
KeyOfCall(c) ==
    IF c.op \in PlacedOps THEN c.args.comp_id ELSE c.args.node_id

KeyOf(j) == KeyOfCall(calls[j])

\* the calls before call k that made a box under the key
MadeUnder(k, key) ==
    {j \in 1..(k - 1) : calls[j].op \in (NodeOps \cup PlacedOps) /\ KeyOf(j) = key}

\* the wrapper returned by the latest of them
NewestUnder(k, key) ==
    LET j == CHOOSE m \in MadeUnder(k, key) : \A n \in MadeUnder(k, key) : n <= m
    IN  calls[j].ret[1]

\* call k is a connect of an ArchitectureDiagram, both ways, with both keys
\* registered
BothWays(k) ==
    /\ kind = "ArchitectureDiagram"
    /\ calls[k].op = "connect"
    /\ calls[k].args.bidirectional
    /\ MadeUnder(k, calls[k].args.from_id) # {}
    /\ MadeUnder(k, calls[k].args.to_id) # {}

\* the start and the end of an arrow element
ArrowStart(a) == <<a.x, a.y>>

ArrowEnd(a) == <<FAdd(a.x, a.points[2][1]), FAdd(a.y, a.points[2][2])>>

\* the return arrow runs from the end of the forward arrow to its start
Mirrored(k) ==
    LET fwd == AppendedElem(k, 1)
        back == AppendedElem(k, AppendedBy(k))
    IN  /\ AppendedBy(k) >= 2
        /\ fwd.type = "arrow"
        /\ back.type = "arrow"
        /\ ArrowStart(back) = ArrowEnd(fwd)
        /\ ArrowEnd(back) = ArrowStart(fwd)

SameCentre(v, w) ==
    CentreX(v) = CentreX(w) /\ CentreY(v) = CentreY(w)

\* C13 as claimed: whatever the placement of the two components, equal
\* centres and overlapping boxes included, the return arrow of a
\* bidirectional connect is the mirror of the forward arrow.
C13_AlwaysMirrored ==
    \A k \in 1..Len(calls) : BothWays(k) => Mirrored(k)

\* C13 amended: the return arrow is the mirror of the forward arrow
\* whenever the centres of the two components differ; when the centres are
\* equal each arrow runs from the top centre of its own source to the bottom
\* centre of its own target.
C13_MirroredUnlessSameCentre ==
    \A k \in 1..Len(calls) :
        BothWays(k) =>
            LET src == NewestUnder(k, calls[k].args.from_id)
                tgt == NewestUnder(k, calls[k].args.to_id)
                fwd == AppendedElem(k, 1)
                back == AppendedElem(k, AppendedBy(k))
            IN  IF SameCentre(src, tgt)
                THEN /\ AppendedBy(k) >= 2
                     /\ ArrowStart(fwd) = Anchor(src, "top")
                     /\ ArrowEnd(fwd) = Anchor(tgt, "bottom")
                     /\ ArrowStart(back) = Anchor(tgt, "top")
                     /\ ArrowEnd(back) = Anchor(src, "bottom")
                ELSE Mirrored(k)

\* two components that overlap without sharing a centre were connected both
\* ways, the return arrow being the mirror of the forward one
C13_Witness ==
    /\ Len(calls) = 3
    /\ BothWays(3)
    /\ calls[3].args.from_id # calls[3].args.to_id
    /\ LET src == NewestUnder(3, calls[3].args.from_id)
           tgt == NewestUnder(3, calls[3].args.to_id)
       IN  /\ ~SameCentre(src, tgt)
           /\ FLess(Magnitude(FSub(CentreX(tgt), CentreX(src))),
                    Half(FAdd(src.width, tgt.width)))
           /\ FLess(Magnitude(FSub(CentreY(tgt), CentreY(src))),
                    Half(FAdd(src.height, tgt.height)))
    /\ Mirrored(3)

\* the ids of the elements call k found in the document
IdsBefore(k) == {elements[i].id : i \in 1..calls[k].pre}

\* call k is a group call all of whose wrappers are wrappers of elements
\* of the document
LocalGroup(k) ==
    /\ calls[k].op = "group"
    /\ \A i \in 1..Len(calls[k].args.elements) :
          calls[k].args.elements[i].id \in IdsBefore(k)

\* group call k names the element with this id
Names(k, id) ==
    /\ calls[k].op = "group"
    /\ \E i \in 1..Len(calls[k].args.elements) : calls[k].args.elements[i].id = id

\* the identifiers returned by the group calls that named the element, up
\* to call k, in call order
RECURSIVE Memberships(_, _)
Memberships(id, k) ==
    IF k = 0
    THEN <<>>
    ELSE Memberships(id, k - 1)
            \o (IF Names(k, id) THEN <<calls[k].ret[1]>> ELSE <<>>)

\* C14: as long as group is called on wrappers of elements of the document,
\* each call raises nothing and returns one identifier that no earlier call
\* returned and no element has as its id, and the groupIds of every element
\* is the list of the identifiers returned by the group calls that named it,
\* in call order: each call appended its identifier and replaced nothing.
C14_GroupAppendsOnce ==
    (\A k \in 1..Len(calls) : calls[k].op = "group" => LocalGroup(k)) =>
        /\ \A k \in 1..Len(calls) :
              calls[k].op = "group" =>
                  /\ calls[k].raised = None
                  /\ calls[k].ret # None
                  /\ calls[k].ret[1] \notin IdsBefore(k)
                  /\ \A j \in 1..(k - 1) :
                        calls[j].op = "group" => calls[j].ret # calls[k].ret
        /\ \A i \in 1..Len(elements) :
              elements[i].groupIds = Memberships(elements[i].id, Len(calls))

\* a is an arrow from the side of src to the side of tgt that the rule of C4
\* selects for centres dx and dy apart
JoinsAcross(a, src, tgt, dx, dy) ==
    /\ a.type = "arrow"
    /\ Runs(a, Anchor(src, AutoFrom(dx, dy)), Anchor(tgt, AutoTo(dx, dy)))

\* a is the arrow anchored on the geometry of src and tgt
Joins(a, src, tgt) ==
    JoinsAcross(a, src, tgt, FSub(CentreX(tgt), CentreX(src)),
                FSub(CentreY(tgt), CentreY(src)))

\* the step is a call that makes a box under a key that is registered
Overwrite ==
    /\ Len(calls') = Len(calls) + 1
    /\ calls'[Len(calls')].op \in (NodeOps \cup PlacedOps)
    /\ KeyOfCall(calls'[Len(calls')]) \in DOMAIN Registry

\* the step is a connect call both of whose keys are registered
Connects ==
    /\ Len(calls') = Len(calls) + 1
    /\ calls'[Len(calls')].op = "connect"
    /\ calls'[Len(calls')].args.from_id \in DOMAIN Registry
    /\ calls'[Len(calls')].args.to_id \in DOMAIN Registry

\* C15: a call that makes a node or a component under a key that is
\* registered leaves every element of the document as it was, leaves the
\* other keys of the registry as they were and maps the key to the wrapper
\* of the element it has just appended; and a connect anchors its arrow on
\* the geometry of the newest box made under each of its keys.
C15_RegistryOverwrite ==
    [][/\ Overwrite =>
            LET c == calls'[Len(calls')]
                key == KeyOfCall(c)
                reg == IF kind = "Flowchart" THEN _nodes' ELSE _components'
            IN  /\ SubSeq(elements', 1, Len(elements)) = elements
                /\ Len(elements') = Len(elements) + 2
                /\ DOMAIN reg = DOMAIN Registry
                /\ \A other \in DOMAIN Registry \ {key} : reg[other] = Registry[other]
                /\ reg[key] = c.ret[1]
                /\ reg[key].id = elements'[Len(elements) + 1].id
                /\ reg[key].id # Registry[key].id
       /\ Connects =>
            /\ Len(elements') > Len(elements)
            /\ Joins(elements'[Len(elements) + 1],
                     NewestUnder(Len(calls) + 1, calls'[Len(calls')].args.from_id),
                     NewestUnder(Len(calls) + 1, calls'[Len(calls')].args.to_id))]_vars

\* two boxes of different geometry were made under one key and a connect
\* naming the key drew its arrow from the second, both boxes being in the
\* document
C15_Witness ==
    /\ Len(calls) = 3
    /\ calls[1].op \in (NodeOps \cup PlacedOps)
    /\ calls[2].op \in (NodeOps \cup PlacedOps)
    /\ KeyOf(1) = KeyOf(2)
    /\ calls[1].ret[1].width # calls[2].ret[1].width
    /\ calls[3].op = "connect"
    /\ calls[3].args.from_id = KeyOf(2)
    /\ Len(elements) >= 5
    /\ elements[1].id = calls[1].ret[1].id
    /\ elements[3].id = calls[2].ret[1].id
    /\ ArrowStart(elements[5]) = Anchor(calls[2].ret[1], "top")
    /\ ArrowStart(elements[5]) # Anchor(calls[1].ret[1], "top")

\* the fields every element has to carry
RequiredFields ==
    {"id", "type", "x", "y", "width", "height", "angle", "strokeColor",
     "backgroundColor", "fillStyle", "strokeWidth", "strokeStyle", "roughness",
     "opacity", "seed", "version", "versionNonce", "isDeleted", "groupIds",
     "frameId", "boundElements", "updated", "link", "locked", "roundness"}

\* C16: every element of the document carries all the required fields, is
\* not deleted, has version 1, no frame, no link and is not locked, and
\* every arrow and every line has no start binding and no end binding.
C16_RequiredFields ==
    \A i \in 1..Len(elements) :
        LET e == elements[i]
        IN  /\ RequiredFields \subseteq DOMAIN e
            /\ e.isDeleted = FALSE
            /\ e.version = 1
            /\ e.frameId = None
            /\ e.link = None
            /\ e.locked = FALSE
            /\ e.type \in {"arrow", "line"} =>
                  /\ {"startBinding", "endBinding"} \subseteq DOMAIN e
                  /\ e.startBinding = None
                  /\ e.endBinding = None

\* the document holds a shape bound to its text, an arrow and a line
C16_Witness ==
    /\ Len(calls) = 3
    /\ {elements[i].type : i \in 1..Len(elements)} \cap ShapeTypes # {}
    /\ {"text", "arrow", "line"} \subseteq {elements[i].type : i \in 1..Len(elements)}
    /\ \E i \in 1..Len(elements) : elements[i].boundElements # None

\* the extent C17 gives the box of a node call
ExtentOf(c) ==
    CASE c.op = "decision" -> <<U(120), U(80)>>
      [] c.op \in {"start", "end", "process"} -> <<U(150), U(60)>>
      [] c.op = "node" -> <<c.args.width, c.args.height>>

\* the step is a call of node, start, end, process or decision
NodeStep ==
    /\ Len(calls') = Len(calls) + 1
    /\ calls'[Len(calls')].op \in NodeOps

\* the step is a call of position_at
PositionStep ==
    /\ Len(calls') = Len(calls) + 1
    /\ calls'[Len(calls')].op = "position_at"

\* C17: a node call puts the top-left of its box, of the extent of its
\* kind, at the cursor (at the point of a position_at that came just
\* before), registers the wrapper under the key and moves the cursor by
\* height + spacing down (vertical) or by width + spacing right
\* (horizontal), the other coordinate staying; position_at sets the cursor
\* to its point and leaves the elements and the registry as they were.
C17_CursorArithmetic ==
    [][/\ NodeStep =>
            LET c == calls'[Len(calls')]
                shape == elements'[Len(elements) + 1]
                extent == ExtentOf(c)
            IN  /\ Len(elements') = Len(elements) + 2
                /\ shape.x = _next_x
                /\ shape.y = _next_y
                /\ shape.width = extent[1]
                /\ shape.height = extent[2]
                /\ (Len(calls) > 0 /\ Last.op = "position_at") =>
                      /\ shape.x = Last.args.x
                      /\ shape.y = Last.args.y
                /\ c.args.node_id \in DOMAIN _nodes'
                /\ _nodes'[c.args.node_id] = c.ret[1]
                /\ c.ret[1] = [id |-> shape.id, x |-> shape.x, y |-> shape.y,
                               width |-> shape.width, height |-> shape.height]
                /\ IF direction = "vertical"
                   THEN /\ _next_y' = FAdd(_next_y, FAdd(extent[2], spacing))
                        /\ _next_x' = _next_x
                   ELSE /\ _next_x' = FAdd(_next_x, FAdd(extent[1], spacing))
                        /\ _next_y' = _next_y
       /\ PositionStep =>
            /\ _next_x' = calls'[Len(calls')].args.x
            /\ _next_y' = calls'[Len(calls')].args.y
            /\ elements' = elements
            /\ _nodes' = _nodes]_vars

\* after a node, position_at moved the cursor off the flow and a decision
\* was placed at its point, the cursor moving on by the decision's extent
\* and the spacing
C17_Witness ==
    /\ kind = "Flowchart"
    /\ Len(calls) = 3
    /\ calls[1].op \in {"start", "process"}
    /\ calls[2].op = "position_at"
    /\ calls[3].op = "decision"
    /\ elements[3].x = calls[2].args.x
    /\ elements[3].y = calls[2].args.y
    /\ elements[3].x # elements[1].x
    /\ IF direction = "vertical"
       THEN _next_y = FAdd(calls[2].args.y, FAdd(U(80), spacing))
       ELSE _next_x = FAdd(calls[2].args.x, FAdd(U(120), spacing))

\* C18: the label text that arrow makes has its horizontal centre at the
\* middle of the segment, x + width / 2 = start_x + dx / 2, and lies 20
\* above the middle, y = start_y + dy / 2 - 20, whatever the direction of
\* the segment and the length of the label.
C18_LabelCentred ==
    \A k \in 1..Len(calls) :
        (calls[k].op = "arrow" /\ Len(Returned(k)) = 2) =>
            LET g == calls[k].args.seg
                t == Returned(k)[2]
            IN  /\ t.type = "text"
                /\ FAdd(t.x, Half(t.width)) = FAdd(g[1], Half(FSub(g[3], g[1])))
                /\ t.y = FSub(FAdd(g[2], Half(FSub(g[4], g[2]))), U(20))

\* call k is a connect of an ArchitectureDiagram with both keys registered
ComponentsConnected(k) ==
    /\ kind = "ArchitectureDiagram"
    /\ calls[k].op = "connect"
    /\ MadeUnder(k, calls[k].args.from_id) # {}
    /\ MadeUnder(k, calls[k].args.to_id) # {}

\* 1 when the call was given a label of at least one character, else 0
Labelled(k) ==
    IF calls[k].args.label # None /\ calls[k].args.label # Some(<<>>) THEN 1 ELSE 0

\* the element is an arrow with a head at its end only
OneHeaded(e) ==
    /\ e.type = "arrow"
    /\ e.startArrowhead = None
    /\ e.endArrowhead = Some("arrow")

\* C19: an ArchitectureDiagram connect with both keys registered appends
\* the forward arrow, from the source to the target, then the text of the
\* label when there is one, and then, only when bidirectional, the return
\* arrow, from the target to the source, with no text after it; each arrow
\* has a head at its end only.
C19_ConnectElements ==
    \A k \in 1..Len(calls) :
        ComponentsConnected(k) =>
            LET src == NewestUnder(k, calls[k].args.from_id)
                tgt == NewestUnder(k, calls[k].args.to_id)
                dx == FSub(CentreX(tgt), CentreX(src))
                dy == FSub(CentreY(tgt), CentreY(src))
                n == AppendedBy(k)
                arrows == {j \in 1..n : AppendedElem(k, j).type = "arrow"}
                texts == {j \in 1..n : AppendedElem(k, j).type = "text"}
            IN  /\ n = Cardinality(arrows) + Cardinality(texts)
                /\ Cardinality(arrows) = (IF calls[k].args.bidirectional THEN 2 ELSE 1)
                /\ \A j \in arrows : OneHeaded(AppendedElem(k, j))
                /\ 1 \in arrows
                /\ Runs(AppendedElem(k, 1), Anchor(src, AutoFrom(dx, dy)),
                        Anchor(tgt, AutoTo(dx, dy)))
                /\ texts = (IF Labelled(k) = 1 THEN {2} ELSE {})
                /\ \A j \in texts :
                      /\ AppendedElem(k, j).text = calls[k].args.label[1]
                      /\ AppendedElem(k, j).containerId = None
                /\ calls[k].args.bidirectional =>
                      /\ n \in arrows
                      /\ Runs(AppendedElem(k, n),
                              Anchor(tgt, AutoFrom(FNeg(dx), FNeg(dy))),
                              Anchor(src, AutoTo(FNeg(dx), FNeg(dy))))

\* two different components were connected both ways with a label: arrow,
\* text, arrow
C19_Witness ==
    /\ Len(calls) = 3
    /\ ComponentsConnected(3)
    /\ calls[3].args.bidirectional
    /\ calls[3].args.from_id # calls[3].args.to_id
    /\ Labelled(3) = 1
    /\ AppendedBy(3) = 3
    /\ elements[5].type = "arrow"
    /\ elements[6].type = "text"
    /\ elements[7].type = "arrow"

\* C20: no element of the document has the same group identifier twice in
\* its groupIds, also after a group call that was passed the same wrapper
\* more than once.
C20_MembershipIsSet ==
    \A i \in 1..Len(elements) :
        \A m, n \in 1..Len(elements[i].groupIds) :
            m # n => elements[i].groupIds[m] # elements[i].groupIds[n]

\* the step is a call of group
GroupStep ==
    /\ Len(calls') = Len(calls) + 1
    /\ calls'[Len(calls')].op = "group"

\* the ids of the wrappers the call was passed
PassedIds(c) == {c.args.elements[i].id : i \in 1..Len(c.args.elements)}

\* C21: a group call leaves the number and the order of the elements as
\* they were, leaves every element whose id is not the id of a wrapper it
\* was passed as it was in every field, and changes nothing but groupIds in
\* the others; so a call passed only wrappers of another diagram, whose ids
\* no element has, changes no element.
C21_GroupFrame ==
    [][GroupStep =>
          /\ Len(elements') = Len(elements)
          /\ \A i \in 1..Len(elements) :
                IF elements[i].id \in PassedIds(calls'[Len(calls')])
                THEN elements'[i] = [elements[i] EXCEPT !.groupIds = elements'[i].groupIds]
                ELSE elements'[i] = elements[i]]_vars

\* the call is an arrow_between with at least one side given
IsExplicitArrow(c) ==
    c.op = "arrow_between" /\ (c.args.from_side # "auto" \/ c.args.to_side # "auto")

\* C22: arrow_between with a side given starts its arrow at the anchor of
\* the from_side given and ends it at the anchor of the to_side given,
\* wherever the two wrappers lie; a side left "auto" next to a given one is
\* the top centre of the source for from_side and the bottom centre of the
\* target for to_side.
C22_ExplicitSides ==
    \A k \in 1..Len(calls) :
        IsExplicitArrow(calls[k]) =>
            LET c == calls[k]
                a == AppendedElem(k, 1)
                from == IF c.args.from_side = "auto" THEN "top" ELSE c.args.from_side
                to == IF c.args.to_side = "auto" THEN "bottom" ELSE c.args.to_side
            IN  /\ AppendedBy(k) >= 1
                /\ a.type = "arrow"
                /\ Runs(a, Anchor(c.args.source, from), Anchor(c.args.target, to))

\* an arrow was drawn from the right of a box to a box lying to its right
\* with to_side left "auto": it ends at the bottom centre of the target,
\* not at the left side detection would have found
C22_Witness ==
    /\ Len(calls) = 3
    /\ IsExplicitArrow(calls[3])
    /\ calls[3].args.from_side = "right"
    /\ calls[3].args.to_side = "auto"
    /\ FLess(Magnitude(FSub(CentreY(calls[3].args.target), CentreY(calls[3].args.source))),
             FSub(CentreX(calls[3].args.target), CentreX(calls[3].args.source)))
    /\ ArrowEnd(elements[Len(elements)]) = Anchor(calls[3].args.target, "bottom")
    /\ ArrowEnd(elements[Len(elements)]) # Anchor(calls[3].args.target, "left")

====
